---- MODULE Spec2Model ----
(***************************************************************************)
(* Model of image_gallery_parser.py: the ImageGalleryParser pipeline       *)
(* (find_html_files, read_file_with_encoding, process_html_file,           *)
(* parse_files, generate_html_content, generate_html_gallery, main) and    *)
(* its two pure helpers, extract_date and is_image_link.                   *)
(*                                                                         *)
(* A Python str is modelled as the sequence of its Unicode code points,    *)
(* so that comparison (list.sort), case folding (str.lower), character     *)
(* classes (\d, \s, [а-я]) and escaping (html.escape) are computed the way *)
(* the interpreter computes them.  Every string literal below carries the  *)
(* text it encodes in a comment.                                           *)
(***************************************************************************)
EXTENDS Integers, Sequences, FiniteSets, TLC

VARIABLES
    fs,              \* the *.html files under config.input_dir (paths of the catalogue)
    run,             \* number of the current invocation of main()
    pc,              \* position of main(): "main", "find", "file", "scan", "sort",
                     \* "render", "summary", "exit"
    html_files,      \* parse_files: the list find_html_files returned
    idx,             \* parse_files: 1-based position of the for loop over html_files
    anchors,         \* process_html_file: soup.find_all("a", href=True) of the open file
    aidx,            \* process_html_file: 1-based position of the for loop over anchors
    pbar,            \* parse_files: the progress bar's count (pbar.update(1) in finally)
    all_links,       \* self.all_links
    photos_by_date,  \* self.photos_by_date (a function: date key -> list of links)
    disk,            \* the report written to output_dir by this run, or NoReport
    exit_code,       \* the process's exit status, -1 while main() runs
    log,             \* the kinds of messages the logger has emitted in this run
    snap,            \* history: all_links/photos_by_date when the current file was started
    last,            \* history: how the most recent file ended ("none", "ok", "failed")
    prev,            \* history: what the previous completed run produced, or NoRun
    arg,             \* the argument of a direct call of extract_date / is_image_link
    ret,             \* its result
    called           \* whether that call has been made

pipeVars == <<fs, run, pc, html_files, idx, anchors, aidx, pbar, all_links,
              photos_by_date, disk, exit_code, log, snap, last, prev>>
callVars == <<arg, ret, called>>
vars == <<fs, run, pc, html_files, idx, anchors, aidx, pbar, all_links,
          photos_by_date, disk, exit_code, log, snap, last, prev, arg, ret, called>>

(***************************************************************************)
(* Bounds of the model.                                                    *)
(***************************************************************************)
MaxFiles == 3        \* at most this many files in the input directory
MaxRuns == 2         \* main() is run at most this many times on the directory
MaxTextPieces == 3   \* a text given to extract_date is at most this many pieces
MaxLinkPieces == 3   \* a link given to is_image_link is at most this many pieces
MaxClock == 2        \* the timestamps datetime.now() can give are 1..MaxClock

(***************************************************************************)
(* Strings.                                                                *)
(***************************************************************************)
RECURSIVE Concat(_)
\* ''.join(parts)
Concat(parts) ==
    IF parts = << >> THEN << >> ELSE Head(parts) \o Concat(Tail(parts))

\* Python's None (no str is equal to it: -1 is no code point).
None == << -1 >>

\* str.isspace() / the regex class \s on str patterns (code points below U+3001).
IsSpace(c) ==
    c \in (9..13) \cup (28..32) \cup {133, 160, 5760} \cup (8192..8202)
          \cup {8232, 8233, 8239, 8287, 12288}

\* The regex class \d restricted to the ASCII digits "0".."9".
IsDigit(c) == c \in 48..57

\* The regex class [а-я] under re.IGNORECASE: U+0430..U+044F and U+0410..U+042F.
IsCyrillic(c) == c \in 1040..1103

\* str.lower() of one character: "A".."Z" and "А".."Я" have a lower case 32 above.
LowerChar(c) == IF c \in 65..90 \/ c \in 1040..1071 THEN c + 32 ELSE c

\* str.lower()
Lower(s) == [i \in 1..Len(s) |-> LowerChar(s[i])]

\* str.strip(): leading and trailing whitespace removed.
Strip(s) ==
    LET keep == {i \in 1..Len(s) : ~IsSpace(s[i])}
    IN  IF keep = {} THEN << >>
        ELSE LET lo == CHOOSE i \in keep : \A j \in keep : i <= j
                 hi == CHOOSE i \in keep : \A j \in keep : j <= i
             IN  SubSeq(s, lo, hi)

\* s.rfind(c) as a 1-based index, 0 when c does not occur.
RFind(s, c) ==
    LET at == {i \in 1..Len(s) : s[i] = c}
    IN  IF at = {} THEN 0 ELSE CHOOSE i \in at : \A j \in at : j <= i

\* s.find(c) as a 1-based index, 0 when c does not occur.
Find(s, c) ==
    LET at == {i \in 1..Len(s) : s[i] = c}
    IN  IF at = {} THEN 0 ELSE CHOOSE i \in at : \A j \in at : i <= j

\* str.zfill(width) of a string of digits.
zfill(s, width) ==
    IF Len(s) >= width THEN s ELSE [i \in 1..(width - Len(s)) |-> 48] \o s

\* a < b in Python's ordering of str: lexicographic by code point.
StrLess(a, b) ==
    \E k \in 1..(Len(b)) :
        /\ \A i \in 1..(k - 1) : i <= Len(a) /\ a[i] = b[i]
        /\ \/ k = Len(a) + 1
           \/ k <= Len(a) /\ a[k] < b[k]

(***************************************************************************)
(* Date Extractor: DATE_PATTERN, MONTHS, extract_date.                     *)
(***************************************************************************)
\* MONTHS: Russian month abbreviations to numbers.
MONTHS ==
       <<1103, 1085, 1074>> :> <<48, 49>> @@   \* 'янв': '01'
       <<1092, 1077, 1074>> :> <<48, 50>> @@   \* 'фев': '02'
       <<1084, 1072, 1088>> :> <<48, 51>> @@   \* 'мар': '03'
       <<1072, 1087, 1088>> :> <<48, 52>> @@   \* 'апр': '04'
       <<1084, 1072, 1103>> :> <<48, 53>> @@   \* 'мая': '05'
       <<1080, 1102, 1085>> :> <<48, 54>> @@   \* 'июн': '06'
       <<1080, 1102, 1083>> :> <<48, 55>> @@   \* 'июл': '07'
       <<1072, 1074, 1075>> :> <<48, 56>> @@   \* 'авг': '08'
       <<1089, 1077, 1085>> :> <<48, 57>> @@   \* 'сен': '09'
       <<1086, 1082, 1090>> :> <<49, 48>> @@   \* 'окт': '10'
       <<1085, 1086, 1103>> :> <<49, 49>> @@   \* 'ноя': '11'
       <<1076, 1077, 1082>> :> <<49, 50>>      \* 'дек': '12'

\* The part \s([а-я]{3})\s(\d{4}) of DATE_PATTERN matches text at position j.
PatternTailAt(text, j) ==
    /\ j >= 1
    /\ j + 8 <= Len(text)
    /\ IsSpace(text[j])
    /\ \A k \in 1..3 : IsCyrillic(text[j + k])
    /\ IsSpace(text[j + 4])
    /\ \A k \in 5..8 : IsDigit(text[j + k])

\* The length of group 1 when DATE_PATTERN matches text at position i, 0 when
\* it does not: \d{1,2} is greedy, two digits are tried before one.
PatternDayLen(text, i) ==
    IF /\ i + 1 <= Len(text)
       /\ IsDigit(text[i])
       /\ IsDigit(text[i + 1])
       /\ PatternTailAt(text, i + 2)
    THEN 2
    ELSE IF i <= Len(text) /\ IsDigit(text[i]) /\ PatternTailAt(text, i + 1)
         THEN 1
         ELSE 0

RECURSIVE PatternSearchFrom(_, _)
\* DATE_PATTERN.search(text) scanning from position i: the groups
\* <<day, mon_rus, year>> of the leftmost match, << >> when there is none.
PatternSearchFrom(text, i) ==
    IF i > Len(text) THEN << >>
    ELSE LET n == PatternDayLen(text, i)
         IN  IF n = 0 THEN PatternSearchFrom(text, i + 1)
             ELSE << SubSeq(text, i, i + n - 1),
                     SubSeq(text, i + n + 1, i + n + 3),
                     SubSeq(text, i + n + 5, i + n + 8) >>

\* DATE_PATTERN.search(text)
DATE_PATTERN_search(text) == PatternSearchFrom(text, 1)

\* extract_date with the pattern search resumed after an unrecognized month.
extract_date_any_match(text) ==
    LET hit == {i \in 1..Len(text) :
                   /\ PatternDayLen(text, i) > 0
                   /\ Lower(PatternSearchFrom(text, i)[2]) \in DOMAIN MONTHS}
    IN  IF hit = {} THEN None
        ELSE LET i == CHOOSE i \in hit : \A j \in hit : i <= j
                 m == PatternSearchFrom(text, i)
             IN  m[3] \o <<46>> \o zfill(MONTHS[Lower(m[2])], 2)
                      \o <<46>> \o zfill(m[1], 2)

\* extract_date(text): "YYYY.MM.DD" or None.
extract_date(text) ==
    LET match == DATE_PATTERN_search(text)
    IN  IF match = << >> THEN None
        ELSE LET day == match[1]
                 mon_rus == match[2]
                 year == match[3]
                 key == Lower(SubSeq(mon_rus, 1, 3))
             IN  IF key \notin DOMAIN MONTHS THEN None
                 ELSE year \o <<46>> \o zfill(MONTHS[key], 2)
                           \o <<46>> \o zfill(day, 2)

(***************************************************************************)
(* Link Classifier: Config.image_extensions, is_image_link.                *)
(***************************************************************************)
\* Config.__post_init__: the default image_extensions.
image_extensions == {
       <<46, 106, 112, 103>>,        \* ".jpg"
       <<46, 106, 112, 101, 103>>,   \* ".jpeg"
       <<46, 112, 110, 103>>,        \* ".png"
       <<46, 103, 105, 102>>,        \* ".gif"
       <<46, 98, 109, 112>>,         \* ".bmp"
       <<46, 119, 101, 98, 112>>,    \* ".webp"
       <<46, 115, 118, 103>> }       \* ".svg"

\* href.split('?')[0]
SplitQuery(href) ==
    LET q == Find(href, 63)
    IN  IF q = 0 THEN href ELSE SubSeq(href, 1, q - 1)

\* os.path.splitext(p)[1] (posixpath): the text from the last "." of the last
\* path component on, "" when that component has no "." after a character that
\* is not a ".".
splitext_ext(p) ==
    LET sepIndex == RFind(p, 47)
        dotIndex == RFind(p, 46)
    IN  IF /\ dotIndex > sepIndex
           /\ \E k \in (sepIndex + 1)..(dotIndex - 1) : p[k] # 46
        THEN SubSeq(p, dotIndex, Len(p))
        ELSE << >>

\* is_image_link without the .lower() of the extension.
is_image_link_case_sensitive(href) ==
    splitext_ext(SplitQuery(href)) \in image_extensions

\* is_image_link(href)
is_image_link(href) ==
    LET clean_href == SplitQuery(href)
        ext == Lower(splitext_ext(clean_href))
    IN  ext \in image_extensions

(***************************************************************************)
(* Direct calls of the two pure helpers on bounded sets of inputs.         *)
(***************************************************************************)
\* Pieces of header text.
TextPieces == {
    <<49, 53, 32, 1103, 1085, 1074, 32, 50, 48, 50, 52>>,      \* "15 янв 2024"
    <<49, 32, 1073, 1073, 1073, 32, 50, 48, 48, 48>>,          \* "1 ббб 2000"
    <<51, 32, 1060, 1045, 1042, 32, 49, 57, 57, 57>>,          \* "3 ФЕВ 1999"
    <<49, 53, 32, 32, 1103, 1085, 1074, 32, 50, 48, 50, 52>>,  \* "15  янв 2024"
    <<49, 53, 1103, 1085, 1074, 32, 50, 48, 50, 52>>,          \* "15янв 2024"
    <<57, 32, 1084, 1072, 1103, 32, 50, 48>>,                  \* "9 мая 20"
    <<32>>,                                                    \* " "
    <<120>>,                                                   \* "x"
    <<55>> }                                                   \* "7"

\* Pieces of links.
LinkPieces == {
    <<112, 104, 111, 116, 111>>,                               \* "photo"
    <<63, 115, 105, 122, 101, 61, 108, 97, 114, 103, 101>>,    \* "?size=large"
    <<100, 111, 99, 46, 112, 100, 102>>,                       \* "doc.pdf"
    <<46, 74, 80, 71>>,                                        \* ".JPG"
    <<46, 106, 112, 103>>,                                     \* ".jpg"
    <<46, 106, 112, 101, 103>>,                                \* ".jpeg"
    <<46, 80, 110, 103>>,                                      \* ".Png"
    <<46, 103, 105, 102>>,                                     \* ".gif"
    <<46, 98, 109, 112>>,                                      \* ".bmp"
    <<46, 119, 101, 98, 112>>,                                 \* ".webp"
    <<46, 83, 86, 71>>,                                        \* ".SVG"
    <<46, 116, 120, 116>>,                                     \* ".txt"
    <<47>>,                                                    \* "/"
    <<46>> }                                                   \* "."

\* The strings made of at most n pieces.
RECURSIVE Joined(_, _)
Joined(pieces, n) ==
    IF n = 0 THEN { << >> }
    ELSE LET shorter == Joined(pieces, n - 1)
         IN  shorter \cup {s \o p : s \in shorter, p \in pieces}

Texts == Joined(TextPieces, MaxTextPieces)
Links == Joined(LinkPieces, MaxLinkPieces)

\* A report that was never written.
NoReport ==
    [file_ts |-> 0, total |-> 0, no_images |-> FALSE, sections |-> << >>, footer_ts |-> 0]

\* No completed run yet.
NoRun ==
    [none |-> TRUE, files |-> {}, first |-> "", total |-> 0,
     photos_by_date |-> << >>, report_total |-> 0, no_images |-> FALSE,
     sections |-> << >>]

\* The pipeline before main() is entered: ImageGalleryParser.__init__ has made
\* all_links and photos_by_date empty.
PipeStart ==
    /\ pc = "main"
    /\ html_files = << >>
    /\ idx = 0
    /\ anchors = << >>
    /\ aidx = 0
    /\ pbar = 0
    /\ all_links = {}
    /\ photos_by_date = << >>
    /\ disk = NoReport
    /\ exit_code = -1
    /\ log = {}
    /\ snap = [all_links |-> {}, photos_by_date |-> << >>]
    /\ last = "none"

InitDate ==
    /\ PipeStart
    /\ fs = {}
    /\ run = 1
    /\ prev = NoRun
    /\ arg \in Texts
    /\ ret = None
    /\ called = FALSE

\* extract_date(arg) is called.
CallExtractDate ==
    /\ ~called
    /\ ret' = extract_date(arg)
    /\ called' = TRUE
    /\ UNCHANGED <<arg, pipeVars>>

NextDate == CallExtractDate

SpecDate == InitDate /\ [][NextDate]_vars

InitLink ==
    /\ PipeStart
    /\ fs = {}
    /\ run = 1
    /\ prev = NoRun
    /\ arg \in Links
    /\ ret = FALSE
    /\ called = FALSE

\* is_image_link(arg) is called.
CallIsImageLink ==
    /\ ~called
    /\ ret' = is_image_link(arg)
    /\ called' = TRUE
    /\ UNCHANGED <<arg, pipeVars>>

NextLink == CallIsImageLink

SpecLink == InitLink /\ [][NextLink]_vars

(***************************************************************************)
(* The input directory: a catalogue of HTML export files.  Each file is    *)
(* what the reader and the scan of its anchors make of it:                 *)
(*   status    "ok", "missing" (open raises FileNotFoundError) or "denied" *)
(*             (open raises PermissionError)                               *)
(*   decodes   the encodings under which the bytes decode                  *)
(*   raise_at  k > 0: scanning raises an exception at the k-th anchor      *)
(*             find_all returned; 0: scanning raises nothing               *)
(*   anchors   the <a> elements in document order, as parsed under the     *)
(*             first encoding that decodes: href (None without the         *)
(*             attribute), whether a div.message encloses the anchor,      *)
(*             whether that message holds a div.message__header, and the   *)
(*             header's text nodes                                         *)
(***************************************************************************)
Anchor(href, message, header, strings) ==
    [href |-> href, message |-> message, header |-> header, strings |-> strings]

HdrJan15 == << <<49,53,32,1103,1085,1074,32,50,48,50,52>> >>     \* "15 янв 2024"
HdrFeb3 == << <<65,110,110>>,                                    \* "Ann"
              <<32,51,32,1060,1045,1042,32,50,48,50,51,32>>,     \* " 3 ФЕВ 2023 "
              <<97,116,32,49,48,58,48,48>> >>                    \* "at 10:00"
HdrBadMonth == << <<49,53,32,1103,1085,1075,32,50,48,50,52>> >>  \* "15 янг 2024"

b_jpg == <<98,46,106,112,103>>                                   \* "b.jpg"
doc_pdf == <<100,111,99,46,112,100,102>>                         \* "doc.pdf"
i10_jpg == <<105,49,48,46,106,112,103>>                          \* "i10.jpg"
i2_jpg == <<105,50,46,106,112,103>>                              \* "i2.jpg"
a_png_q == <<32,32,97,46,80,78,71,63,120,61,49,38,121,61,50,32>> \* "  a.PNG?x=1&y=2 "
c_webp == <<112,105,99,47,99,46,119,101,98,112>>                 \* "pic/c.webp"
i_2_gif == <<105,60,50,62,46,103,105,102>>                       \* "i<2>.gif"

Encodings == <<"utf-8", "windows-1251", "cp1252">>

Catalogue ==
    [ chat1 |-> [status |-> "ok", decodes |-> {"utf-8", "windows-1251", "cp1252"},
                 raise_at |-> 0,
                 anchors |-> << Anchor(b_jpg, TRUE, TRUE, HdrJan15),
                                Anchor(doc_pdf, TRUE, TRUE, HdrJan15),
                                Anchor(i10_jpg, FALSE, FALSE, << >>) >>],
      chat2 |-> [status |-> "ok", decodes |-> {"windows-1251", "cp1252"},
                 raise_at |-> 0,
                 anchors |-> << Anchor(b_jpg, TRUE, TRUE, HdrFeb3),
                                Anchor(a_png_q, TRUE, TRUE, HdrJan15) >>],
      broken |-> [status |-> "ok", decodes |-> {},
                  raise_at |-> 0,
                  anchors |-> << Anchor(c_webp, TRUE, TRUE, HdrJan15) >>],
      deep |-> [status |-> "ok", decodes |-> {"utf-8", "cp1252"},
                raise_at |-> 3,
                anchors |-> << Anchor(i2_jpg, TRUE, TRUE, HdrJan15),
                               Anchor(i10_jpg, TRUE, TRUE, HdrJan15),
                               Anchor(c_webp, TRUE, TRUE, HdrJan15) >>],
      misc |-> [status |-> "ok", decodes |-> {"utf-8"},
                raise_at |-> 0,
                anchors |-> << Anchor(None, TRUE, TRUE, HdrJan15),
                               Anchor(i_2_gif, TRUE, FALSE, << >>),
                               Anchor(i_2_gif, TRUE, TRUE, HdrBadMonth),
                               Anchor(b_jpg, TRUE, TRUE, HdrJan15) >>],
      locked |-> [status |-> "denied", decodes |-> {"utf-8"},
                  raise_at |-> 0,
                  anchors |-> << Anchor(c_webp, TRUE, TRUE, HdrJan15) >>],
      gone |-> [status |-> "missing", decodes |-> {"utf-8"},
                raise_at |-> 0,
                anchors |-> << Anchor(c_webp, FALSE, FALSE, << >>) >>] ]

Paths == DOMAIN Catalogue

\* The orders in which a set of paths can be listed.
Orders(S) ==
    {f \in [1..Cardinality(S) -> S] : \A i, j \in 1..Cardinality(S) : f[i] = f[j] => i = j}

\* The elements of a list.
Range(f) == {f[i] : i \in DOMAIN f}

(***************************************************************************)
(* Encoding-Resilient Reader: read_file_with_encoding.                     *)
(***************************************************************************)
\* The outcome of read_file_with_encoding(path): "raise" when open raises an
\* error the except clause does not name, "soup" with the first encoding of
\* the list under which the file decodes, "none" when every attempt failed.
read_file_with_encoding(path) ==
    LET doc == Catalogue[path]
        good == {k \in 1..Len(Encodings) : Encodings[k] \in doc.decodes}
    IN  IF doc.status = "denied" THEN "raise"
        ELSE IF doc.status = "missing" \/ good = {} THEN "none"
        ELSE "soup"

\* soup.find_all("a", href=True): the anchors that carry an href.
find_all_a_href(path) ==
    SelectSeq(Catalogue[path].anchors, LAMBDA a : a.href # None)

(***************************************************************************)
(* Document Processor: the body of the for loop of process_html_file.      *)
(***************************************************************************)
RECURSIVE JoinStripped(_)
\* The stripped, non-empty strings among text nodes, each followed by " ".
JoinStripped(strings) ==
    IF strings = << >> THEN << >>
    ELSE LET s == Strip(Head(strings))
         IN  (IF s = << >> THEN << >> ELSE s \o <<32>>) \o JoinStripped(Tail(strings))

\* header.get_text(separator=" ", strip=True)
get_text(strings) ==
    LET joined == JoinStripped(strings)
    IN  IF joined = << >> THEN << >> ELSE SubSeq(joined, 1, Len(joined) - 1)

\* The date key process_html_file finds for an anchor, None when the anchor
\* has no enclosing message, the message no header, or the header no date.
date_key_of(a) ==
    IF a.message /\ a.header
    THEN LET d == extract_date(get_text(a.strings))
         IN  IF d = << >> THEN None ELSE d
    ELSE None

\* self.photos_by_date[date_key].append(href) on a defaultdict(list).
append_to(photos, date_key, href) ==
    IF date_key \in DOMAIN photos
    THEN [photos EXCEPT ![date_key] = Append(@, href)]
    ELSE photos @@ (date_key :> <<href>>)

\* One iteration with an undated link filed under the date "" .
process_anchor_blank_date(links, photos, a) ==
    LET href == Strip(a.href)
        date_key == date_key_of(a)
    IN  IF ~is_image_link(href)
        THEN [all_links |-> links, photos_by_date |-> photos]
        ELSE [all_links |-> links \cup {href},
              photos_by_date |->
                  append_to(photos, IF date_key = None THEN << >> ELSE date_key, href)]

\* One iteration with the link moved to the bucket of its latest date.
process_anchor_one_bucket(links, photos, a) ==
    LET href == Strip(a.href)
        date_key == date_key_of(a)
        others == [d \in DOMAIN photos |->
                      SelectSeq(photos[d], LAMBDA h : h # href \/ d = date_key)]
    IN  IF ~is_image_link(href)
        THEN [all_links |-> links, photos_by_date |-> photos]
        ELSE [all_links |-> links \cup {href},
              photos_by_date |->
                  IF date_key = None THEN photos
                  ELSE append_to(others, date_key, href)]

\* One iteration with the date association made before the registration,
\* and the registration skipped for a link already filed under a date.
process_anchor_append_only(links, photos, a) ==
    LET href == Strip(a.href)
        date_key == date_key_of(a)
    IN  IF ~is_image_link(href)
        THEN [all_links |-> links, photos_by_date |-> photos]
        ELSE IF date_key = None
        THEN [all_links |-> links \cup {href}, photos_by_date |-> photos]
        ELSE [all_links |-> links,
              photos_by_date |-> append_to(photos, date_key, href)]

\* One iteration of the for loop of process_html_file on anchor a.
process_anchor(links, photos, a) ==
    LET href == Strip(a.href)
        date_key == date_key_of(a)
    IN  IF ~is_image_link(href)
        THEN [all_links |-> links, photos_by_date |-> photos]
        ELSE [all_links |-> links \cup {href},
              photos_by_date |->
                  IF date_key = None THEN photos
                  ELSE append_to(photos, date_key, href)]

(***************************************************************************)
(* Gallery Aggregator: list.sort and the end of a loop iteration.          *)
(***************************************************************************)
RECURSIVE InsertSorted(_, _)
\* x put into the sorted list s, after the elements that are not greater.
InsertSorted(s, x) ==
    IF s = << >> THEN <<x>>
    ELSE IF StrLess(x, Head(s)) THEN <<x>> \o s
    ELSE <<Head(s)>> \o InsertSorted(Tail(s), x)

RECURSIVE SortedFrom(_, _)
SortedFrom(done, rest) ==
    IF rest = << >> THEN done
    ELSE SortedFrom(InsertSorted(done, Head(rest)), Tail(rest))

\* The list left as it is.
list_sort_skipped(s) == s

\* The list sorted with its duplicates dropped.
list_sort_unique(s) ==
    LET sorted == SortedFrom(<< >>, s)
    IN  SelectSeq([i \in 1..Len(sorted) |->
                      IF i > 1 /\ sorted[i] = sorted[i - 1] THEN None ELSE sorted[i]],
                  LAMBDA h : h # None)

\* self.photos_by_date[date].sort(): ascending in Python's order of str.
list_sort(s) == SortedFrom(<< >>, s)

\* The loop position after an exception, had the try enclosed the loop.
idx_after_error_abort(i, n) == n + 1

\* The loop position after the except clause of parse_files has logged the
\* failure of file i of n: the for loop goes on with the next file.
idx_after_error(i, n) == i + 1

(***************************************************************************)
(* Report Renderer: generate_html_content.                                 *)
(***************************************************************************)
\* html.escape(link, quote=True)
html_escape(link) ==
    Concat([i \in 1..Len(link) |->
        CASE link[i] = 38 -> <<38, 97, 109, 112, 59>>            \* "&amp;"
          [] link[i] = 60 -> <<38, 108, 116, 59>>                \* "&lt;"
          [] link[i] = 62 -> <<38, 103, 116, 59>>                \* "&gt;"
          [] link[i] = 34 -> <<38, 113, 117, 111, 116, 59>>      \* "&quot;"
          [] link[i] = 39 -> <<38, 35, 120, 50, 55, 59>>         \* "&#x27;"
          [] OTHER -> <<link[i]>>])

\* The keys in descending order.
RECURSIVE SortedKeysDescending(_)
SortedKeysDescending(keys) ==
    IF keys = {} THEN << >>
    ELSE LET most == CHOOSE k \in keys : \A m \in keys : ~StrLess(k, m)
         IN  <<most>> \o SortedKeysDescending(keys \ {most})

RECURSIVE SortedKeys(_)
\* sorted(keys): the keys in ascending order of str.
SortedKeys(keys) ==
    IF keys = {} THEN << >>
    ELSE LET least == CHOOSE k \in keys : \A m \in keys : ~StrLess(m, k)
         IN  <<least>> \o SortedKeys(keys \ {least})

RECURSIVE SplitDots(_)
\* date_key.split('.')
SplitDots(s) ==
    LET dot == Find(s, 46)
    IN  IF dot = 0 THEN <<s>>
        ELSE <<SubSeq(s, 1, dot - 1)>> \o SplitDots(SubSeq(s, dot + 1, Len(s)))

\* '.'.join(reversed(date_key.split('.')))
human_date(date_key) ==
    LET parts == SplitDots(date_key)
        n == Len(parts)
    IN  Concat([i \in 1..n |->
                   IF i = 1 THEN parts[n] ELSE <<46>> \o parts[n + 1 - i]])

\* generate_html_content(): the count of the stats line, the date sections in
\* the order of sorted_dates (the "no images" notice when there is none), and
\* the timestamp of the footer.
generate_html_content(links, photos, footer_ts) ==
    LET sorted_dates == SortedKeys(DOMAIN photos)
    IN  [ total |-> Cardinality(links),
          no_images |-> (sorted_dates = << >>),
          sections |-> [k \in 1..Len(sorted_dates) |->
              [ date_key |-> sorted_dates[k],
                human_date |-> human_date(sorted_dates[k]),
                image_count |-> Len(photos[sorted_dates[k]]),
                hrefs |-> [i \in 1..Len(photos[sorted_dates[k]]) |->
                              html_escape(photos[sorted_dates[k]][i])] ]],
          footer_ts |-> footer_ts ]

(***************************************************************************)
(* The run of main(): validation, parse_files, generate_html_gallery, the  *)
(* summary, the exit status.                                               *)
(***************************************************************************)
Init ==
    /\ PipeStart
    /\ fs \in {S \in SUBSET Paths : Cardinality(S) <= MaxFiles}
    /\ run = 1
    /\ prev = NoRun
    /\ arg = << >>
    /\ ret = FALSE
    /\ called = FALSE

\* The part of the state the file loop does not touch.
loopFrame == <<fs, run, html_files, disk, exit_code, prev, arg, ret, called>>

\* validate_input_directory: an empty path, a path that is no directory or an
\* unreadable directory is logged and ends the process with status 1.
ValidateFails ==
    /\ pc = "main"
    /\ \E why \in {"not specified", "does not exist", "is not readable"} :
           log' = log \cup {<<"input_error", why>>}
    /\ exit_code' = 1
    /\ pc' = "exit"
    /\ UNCHANGED <<fs, run, html_files, idx, anchors, aidx, pbar, all_links,
                   photos_by_date, disk, snap, last, prev, arg, ret, called>>

\* validate_input_directory returns; Config and ImageGalleryParser are made.
ValidateOk ==
    /\ pc = "main"
    /\ pc' = "find"
    /\ UNCHANGED <<fs, run, html_files, idx, anchors, aidx, pbar, all_links,
                   photos_by_date, disk, exit_code, log, snap, last, prev,
                   arg, ret, called>>

\* parse_files: find_html_files catches an error of the enumeration, logs it
\* and returns []; parse_files warns and returns without sorting.
FindFails ==
    /\ pc = "find"
    /\ html_files' = << >>
    /\ log' = log \cup {<<"find_error", "">>, <<"no_files", "">>}
    /\ pc' = "render"
    /\ UNCHANGED <<fs, run, idx, anchors, aidx, pbar, all_links, photos_by_date,
                   disk, exit_code, snap, last, prev, arg, ret, called>>

\* parse_files: find_html_files returns the files in the order glob lists
\* them; with no file parse_files warns and returns without sorting.
FindOk ==
    /\ pc = "find"
    /\ \E files \in Orders(fs) :
           /\ html_files' = files
           /\ IF files = << >>
              THEN /\ log' = log \cup {<<"found", "">>, <<"no_files", "">>}
                   /\ pc' = "render"
                   /\ idx' = idx
              ELSE /\ log' = log \cup {<<"found", "">>}
                   /\ pc' = "file"
                   /\ idx' = 1
    /\ UNCHANGED <<fs, run, anchors, aidx, pbar, all_links, photos_by_date,
                   disk, exit_code, snap, last, prev, arg, ret, called>>

\* The end of one iteration of the loop of parse_files: finally pbar.update(1),
\* then the next file, or the sort when there is none.
FileEnds(status, next) ==
    /\ pbar' = pbar + 1
    /\ last' = status
    /\ anchors' = << >>
    /\ aidx' = 0
    /\ idx' = next
    /\ pc' = IF next > Len(html_files) THEN "sort" ELSE "file"

\* process_html_file: open raises an error read_file_with_encoding does not
\* catch; the except clause of parse_files logs it with the path.
OpenFileRaises ==
    /\ pc = "file"
    /\ read_file_with_encoding(html_files[idx]) = "raise"
    /\ snap' = [all_links |-> all_links, photos_by_date |-> photos_by_date]
    /\ log' = log \cup {<<"processing_error", html_files[idx]>>}
    /\ FileEnds("raised", idx_after_error(idx, Len(html_files)))
    /\ UNCHANGED <<all_links, photos_by_date>>
    /\ UNCHANGED loopFrame

\* process_html_file: the reader fails under every encoding, warns and returns
\* None; process_html_file returns.
OpenFileUnreadable ==
    /\ pc = "file"
    /\ read_file_with_encoding(html_files[idx]) = "none"
    /\ snap' = [all_links |-> all_links, photos_by_date |-> photos_by_date]
    /\ log' = log \cup {<<"could_not_read", html_files[idx]>>}
    /\ FileEnds("unreadable", idx + 1)
    /\ UNCHANGED <<all_links, photos_by_date>>
    /\ UNCHANGED loopFrame

\* process_html_file: the reader returns a document and find_all its anchors.
OpenFileOk ==
    /\ pc = "file"
    /\ read_file_with_encoding(html_files[idx]) = "soup"
    /\ snap' = [all_links |-> all_links, photos_by_date |-> photos_by_date]
    /\ LET found == find_all_a_href(html_files[idx])
       IN  IF found = << >>
           THEN FileEnds("ok", idx + 1)
           ELSE /\ anchors' = found
                /\ aidx' = 1
                /\ pc' = "scan"
                /\ last' = "open"
                /\ UNCHANGED <<idx, pbar>>
    /\ UNCHANGED <<all_links, photos_by_date, log>>
    /\ UNCHANGED loopFrame

\* process_html_file: an exception is raised while the anchor at aidx is
\* handled; the except clause of parse_files logs it with the path.
ScanRaises ==
    /\ pc = "scan"
    /\ Catalogue[html_files[idx]].raise_at = aidx
    /\ log' = log \cup {<<"processing_error", html_files[idx]>>}
    /\ FileEnds("raised", idx_after_error(idx, Len(html_files)))
    /\ UNCHANGED <<all_links, photos_by_date, snap>>
    /\ UNCHANGED loopFrame

\* process_html_file: one iteration of the loop over the anchors.
ScanAnchor ==
    /\ pc = "scan"
    /\ Catalogue[html_files[idx]].raise_at # aidx
    /\ LET r == process_anchor(all_links, photos_by_date, anchors[aidx])
       IN  /\ all_links' = r.all_links
           /\ photos_by_date' = r.photos_by_date
    /\ IF aidx = Len(anchors)
       THEN FileEnds("ok", idx + 1)
       ELSE /\ aidx' = aidx + 1
            /\ UNCHANGED <<idx, anchors, pbar, last, pc>>
    /\ UNCHANGED <<log, snap>>
    /\ UNCHANGED loopFrame

\* parse_files: after the loop every bucket is sorted and the totals logged.
SortBuckets ==
    /\ pc = "sort"
    /\ photos_by_date' = [d \in DOMAIN photos_by_date |-> list_sort(photos_by_date[d])]
    /\ log' = log \cup {<<"completed", "">>}
    /\ pc' = "render"
    /\ UNCHANGED <<fs, run, html_files, idx, anchors, aidx, pbar, all_links,
                   disk, exit_code, snap, last, prev, arg, ret, called>>

\* generate_html_gallery: the content is generated and written to
\* gallery_<timestamp>.html.
WriteReport ==
    /\ pc = "render"
    /\ \E file_ts \in 1..MaxClock, footer_ts \in 1..MaxClock :
           /\ file_ts <= footer_ts
           /\ disk' = [file_ts |-> file_ts] @@
                      generate_html_content(all_links, photos_by_date, footer_ts)
    /\ log' = log \cup {<<"gallery_created", "">>}
    /\ pc' = "summary"
    /\ UNCHANGED <<fs, run, html_files, idx, anchors, aidx, pbar, all_links,
                   photos_by_date, exit_code, snap, last, prev, arg, ret, called>>

\* generate_html_gallery with the write failure logged and not raised again:
\* main goes on to the summary.
WriteFails_swallowed ==
    /\ pc = "render"
    /\ log' = log \cup {<<"gallery_error", "">>}
    /\ pc' = "summary"
    /\ UNCHANGED <<fs, run, html_files, idx, anchors, aidx, pbar, all_links,
                   photos_by_date, disk, exit_code, snap, last, prev, arg, ret,
                   called>>

\* generate_html_gallery: writing the file raises; the error is logged and
\* raised again, main logs it as unexpected and exits with status 1.
WriteFails ==
    /\ pc = "render"
    /\ log' = log \cup {<<"gallery_error", "">>, <<"unexpected_error", "">>}
    /\ exit_code' = 1
    /\ pc' = "exit"
    /\ UNCHANGED <<fs, run, html_files, idx, anchors, aidx, pbar, all_links,
                   photos_by_date, disk, snap, last, prev, arg, ret, called>>

\* main: the three lines of the summary are printed and main returns.
SummaryOk ==
    /\ pc = "summary"
    /\ exit_code' = 0
    /\ pc' = "exit"
    /\ UNCHANGED <<fs, run, html_files, idx, anchors, aidx, pbar, all_links,
                   photos_by_date, disk, log, snap, last, prev, arg, ret, called>>

\* main: print raises (the summary starts with U+2713, which standard output
\* cannot encode under an ASCII or legacy code page); main logs the error as
\* unexpected and exits with status 1.
SummaryFails ==
    /\ pc = "summary"
    /\ log' = log \cup {<<"unexpected_error", "">>}
    /\ exit_code' = 1
    /\ pc' = "exit"
    /\ UNCHANGED <<fs, run, html_files, idx, anchors, aidx, pbar, all_links,
                   photos_by_date, disk, snap, last, prev, arg, ret, called>>

\* main: KeyboardInterrupt, which no except Exception clause catches, reaches
\* main; inside the loop of parse_files the finally clause still runs.
Interrupt ==
    /\ pc \in {"main", "find", "file", "scan", "sort", "render", "summary"}
    /\ log' = log \cup {<<"cancelled", "">>}
    /\ exit_code' = 130
    /\ pc' = "exit"
    /\ pbar' = IF pc \in {"file", "scan"} THEN pbar + 1 ELSE pbar
    /\ UNCHANGED <<fs, run, html_files, idx, anchors, aidx, all_links,
                   photos_by_date, disk, snap, last, prev, arg, ret, called>>

\* The program is run again on the unchanged directory after a run that
\* ended with status 0: a new process, a new ImageGalleryParser.
RunAgain ==
    /\ pc = "exit"
    /\ exit_code = 0
    /\ run < MaxRuns
    /\ run' = run + 1
    /\ prev' = [none |-> FALSE,
                files |-> Range(html_files),
                first |-> IF html_files = << >> THEN "" ELSE html_files[1],
                total |-> Cardinality(all_links),
                photos_by_date |-> photos_by_date,
                report_total |-> disk.total,
                no_images |-> disk.no_images,
                sections |-> disk.sections]
    /\ pc' = "main"
    /\ html_files' = << >>
    /\ idx' = 0
    /\ anchors' = << >>
    /\ aidx' = 0
    /\ pbar' = 0
    /\ all_links' = {}
    /\ photos_by_date' = << >>
    /\ disk' = NoReport
    /\ exit_code' = -1
    /\ log' = {}
    /\ snap' = [all_links |-> {}, photos_by_date |-> << >>]
    /\ last' = "none"
    /\ UNCHANGED <<fs, arg, ret, called>>

Next ==
    \/ ValidateFails
    \/ ValidateOk
    \/ FindFails
    \/ FindOk
    \/ OpenFileRaises
    \/ OpenFileUnreadable
    \/ OpenFileOk
    \/ ScanRaises
    \/ ScanAnchor
    \/ SortBuckets
    \/ WriteReport
    \/ WriteFails
    \/ SummaryOk
    \/ SummaryFails
    \/ Interrupt
    \/ RunAgain

Spec == Init /\ [][Next]_vars

(***************************************************************************)
(* What the files contribute, read off the catalogue.                      *)
(***************************************************************************)
\* The anchors of a file that the scan handles before it ends or raises.
ScannedAnchors(path) ==
    LET found == find_all_a_href(path)
        k == Catalogue[path].raise_at
    IN  IF read_file_with_encoding(path) # "soup" THEN << >>
        ELSE IF k \in 1..Len(found) THEN SubSeq(found, 1, k - 1)
        ELSE found

\* Processing of the file fails: the reader gives no document or raises, or
\* an exception is raised while its anchors are scanned.
FileFails ==
    [path \in Paths |->
        \/ read_file_with_encoding(path) # "soup"
        \/ Catalogue[path].raise_at \in 1..Len(find_all_a_href(path))]

\* The image anchors among a list of anchors, each as the link the code takes
\* from it (the stripped href) and the date key of its message header.
ImageEntries(as) ==
    LET images == SelectSeq(as, LAMBDA a : is_image_link(Strip(a.href)))
    IN  [i \in 1..Len(images) |->
            [href |-> Strip(images[i].href), date_key |-> date_key_of(images[i])]]

\* The image anchors a complete processing of each file handles.
ScannedEntries == [path \in Paths |-> ImageEntries(ScannedAnchors(path))]

\* The image anchors among the first k anchors of each file.
PrefixEntries ==
    [path \in Paths |->
        [k \in 0..Len(find_all_a_href(path)) |->
            ImageEntries(SubSeq(find_all_a_href(path), 1, k))]]

\* The links of the entries that carry the date d, in order.
DatedLinks(entries, d) ==
    LET hit == SelectSeq(entries, LAMBDA e : e.date_key = d)
    IN  [i \in 1..Len(hit) |-> hit[i].href]

\* The image anchors handled so far in this run: those of the files the loop
\* has finished and those of the open file before position aidx.
HandledEntries ==
    LET n == IF idx - 1 < Len(html_files) THEN idx - 1 ELSE Len(html_files)
        done == Concat([i \in 1..n |-> ScannedEntries[html_files[i]]])
    IN  IF aidx >= 1 THEN done \o PrefixEntries[html_files[idx]][aidx - 1]
        ELSE done

Bucket(photos, d) == IF d \in DOMAIN photos THEN photos[d] ELSE << >>
Occurs(list, x) == \E i \in 1..Len(list) : list[i] = x
Count(list, x) == Cardinality({i \in 1..Len(list) : list[i] = x})

\* The loop of parse_files is over and main has not been cancelled or refused.
AfterLoop ==
    \/ pc \in {"sort", "render", "summary"}
    \/ /\ pc = "exit"
       /\ <<"cancelled", "">> \notin log
       /\ \A e \in log : e[1] # "input_error"

InputRefused == \E e \in log : e[1] = "input_error"

(***************************************************************************)
(* C1: partial-failure tolerance of parse_files.                           *)
(***************************************************************************)
\* C1: whichever files fail, the loop visits every file, each failure is
\* logged with the path of the file, and once the loop is over every image
\* link of every file that did not fail is in all_links and, when it has a
\* date, in the bucket of that date; the written report counts and lists them.
C1_PartialFailureTolerance ==
    /\ AfterLoop =>
         /\ pbar = Len(html_files)
         /\ \A i \in 1..Len(html_files) :
              LET path == html_files[i]
              IN  IF FileFails[path]
                  THEN \/ <<"processing_error", path>> \in log
                       \/ <<"could_not_read", path>> \in log
                  ELSE \A k \in 1..Len(ScannedEntries[path]) :
                         LET e == ScannedEntries[path][k]
                         IN  /\ e.href \in all_links
                             /\ e.date_key # None =>
                                  Occurs(Bucket(photos_by_date, e.date_key), e.href)
    /\ disk # NoReport =>
         /\ disk.total = Cardinality(all_links)
         /\ \A i \in 1..Len(html_files) :
              ~FileFails[html_files[i]] =>
                \A k \in 1..Len(ScannedEntries[html_files[i]]) :
                  LET e == ScannedEntries[html_files[i]][k]
                  IN  e.date_key # None =>
                        \E n \in 1..Len(disk.sections) :
                          /\ disk.sections[n].date_key = e.date_key
                          /\ Occurs(disk.sections[n].hrefs, html_escape(e.href))

\* A report has been written by a run whose first file failed and whose second
\* file did not fail and holds a dated image link.
C1_Witness ==
    /\ disk # NoReport
    /\ Len(html_files) >= 2
    /\ FileFails[html_files[1]]
    /\ ~FileFails[html_files[2]]
    /\ \E k \in 1..Len(ScannedEntries[html_files[2]]) :
         ScannedEntries[html_files[2]][k].date_key # None

(***************************************************************************)
(* C2: what a failed file leaves behind.                                   *)
(***************************************************************************)
\* The loop has just ended the processing of a file that failed.
JustFailed == pc \in {"file", "sort"} /\ last \in {"unreadable", "raised"}

C3_AsStated ==
    \A d1, d2 \in DOMAIN photos_by_date :
        d1 # d2 =>
            \A i \in 1..Len(photos_by_date[d1]) :
                ~Occurs(photos_by_date[d2], photos_by_date[d1][i])

\* C3 amended: every dated occurrence of an image link is filed in exactly
\* one bucket, the one of the date of its own message header: for every date
\* and every link, the bucket of the date holds the link as many times as
\* anchors with that link and that date have been handled.  The same link
\* string is in the buckets of two dates when it occurs under both.
C3_OneBucketPerOccurrence ==
    LET handled == HandledEntries
        dates == {handled[k].date_key : k \in 1..Len(handled)} \ {None}
    IN  /\ dates = DOMAIN photos_by_date
        /\ \A d \in dates :
             LET filed == DatedLinks(handled, d)
             IN  /\ Len(photos_by_date[d]) = Len(filed)
                 /\ \A h \in Range(filed) :
                      Count(photos_by_date[d], h) = Count(filed, h)

\* The loop is over and one link is in the buckets of two dates.
C3_Witness ==
    /\ pc = "render"
    /\ \E d1, d2 \in DOMAIN photos_by_date :
         /\ d1 # d2
         /\ \E h \in all_links :
              Occurs(photos_by_date[d1], h) /\ Occurs(photos_by_date[d2], h)

(***************************************************************************)
(* C4: undated links.                                                      *)
(***************************************************************************)
\* The links all of whose handled occurrences are without a date.
OnlyUndated ==
    LET handled == HandledEntries
    IN  {handled[k].href : k \in 1..Len(handled)} \
        {handled[k].href : k \in {j \in 1..Len(handled) : handled[j].date_key # None}}

\* C4: the link of every handled image anchor is in all_links whatever its
\* context; a link all of whose occurrences lack a message, a header or a date
\* is in no bucket, so that the report counts it in the total and lists it in
\* no date section.
C4_UndatedCountedNotSectioned ==
    LET handled == HandledEntries
        undated == OnlyUndated
    IN  /\ \A k \in 1..Len(handled) : handled[k].href \in all_links
        /\ \A h \in undated :
             \A d \in DOMAIN photos_by_date : ~Occurs(photos_by_date[d], h)
        /\ disk # NoReport =>
             /\ disk.total = Cardinality(all_links)
             /\ \A h \in undated :
                  \A n \in 1..Len(disk.sections) :
                      ~Occurs(disk.sections[n].hrefs, html_escape(h))

\* A report with a date section has been written; it counts two links that
\* occur only without a date (one outside any message, one in a message
\* without a header and under a header without a date) and lists neither.
C4_Witness ==
    /\ disk # NoReport
    /\ Len(disk.sections) >= 1
    /\ {i10_jpg, i_2_gif} \subseteq OnlyUndated
    /\ {i10_jpg, i_2_gif} \subseteq all_links
    /\ disk.total >= 3

(***************************************************************************)
(* C5: the order of the finalized result.                                  *)
(***************************************************************************)
\* Non-decreasing in Python's order of str.
IsSorted(list) == \A i \in 1..(Len(list) - 1) : ~StrLess(list[i + 1], list[i])

\* C5: the sort is reached only when every file has been processed, and in
\* the written report the date sections are in ascending order of their date
\* key, one per bucket, and each section lists its bucket in non-decreasing
\* order of the raw links, whatever failed on the way.
C5_FinalOrder ==
    /\ pc = "sort" => idx = Len(html_files) + 1 /\ pbar = Len(html_files)
    /\ disk # NoReport =>
         /\ {disk.sections[n].date_key : n \in 1..Len(disk.sections)}
                = DOMAIN photos_by_date
         /\ \A n \in 1..(Len(disk.sections) - 1) :
                StrLess(disk.sections[n].date_key, disk.sections[n + 1].date_key)
         /\ \A n \in 1..Len(disk.sections) :
              LET raw == photos_by_date[disk.sections[n].date_key]
              IN  /\ IsSorted(raw)
                  /\ Len(disk.sections[n].hrefs) = Len(raw)
                  /\ \A i \in 1..Len(raw) :
                         disk.sections[n].hrefs[i] = html_escape(raw[i])

\* A report with two date sections has been written after a run in which a
\* file failed and a bucket received its links out of order.
C5_Witness ==
    /\ disk # NoReport
    /\ Len(disk.sections) >= 2
    /\ Len(html_files) >= 3
    /\ html_files[1] = "chat1"
    /\ html_files[2] = "chat2"
    /\ FileFails[html_files[3]]
    /\ \E n \in 1..Len(disk.sections) : Len(disk.sections[n].hrefs) >= 2

(***************************************************************************)
(* C6: run-to-run determinism.                                             *)
(***************************************************************************)
\* C6: a run over the files of the previous run, in whatever order they are
\* enumerated, ends with the same number of links, the same date keys and the
\* same sorted buckets as the previous run, and its report differs from the
\* previous one in the two timestamps only.
C6_Determinism ==
    (/\ ~prev.none
     /\ disk # NoReport
     /\ prev.files = Range(html_files)) =>
        /\ Cardinality(all_links) = prev.total
        /\ DOMAIN photos_by_date = DOMAIN prev.photos_by_date
        /\ \A d \in DOMAIN photos_by_date : photos_by_date[d] = prev.photos_by_date[d]
        /\ disk.total = prev.report_total
        /\ disk.no_images = prev.no_images
        /\ disk.sections = prev.sections

\* A second run has written its report after enumerating the three files of
\* the first run, another of them first.
C6_Witness ==
    /\ ~prev.none
    /\ disk # NoReport
    /\ Len(html_files) >= 3
    /\ prev.files = Range(html_files)
    /\ prev.first # html_files[1]
    /\ Len(disk.sections) >= 2

(***************************************************************************)
(* C9: the exit status.                                                    *)
(***************************************************************************)
\* C9 as stated: after validation a failure to write the report is the only
\* failure that ends the run with a status other than 0; per-file failures,
\* an empty file list or a failed enumeration end with the report written and
\* status 0; an interruption ends with 130; a refused input directory ends
\* with 1 before any file is processed.
C9_AsStated ==
    pc = "exit" =>
        /\ (exit_code = 130) <=> (<<"cancelled", "">> \in log)
        /\ InputRefused => exit_code = 1 /\ pbar = 0 /\ html_files = << >>
        /\ (~InputRefused /\ exit_code # 130) =>
              IF <<"gallery_error", "">> \in log
              THEN exit_code = 1 /\ disk = NoReport
              ELSE exit_code = 0 /\ disk # NoReport

\* C9 amended: after validation the run ends with status 1 exactly when an
\* exception reaches the handler of main, which happens when the renderer
\* raises its write failure again (no report is written) and also when
\* printing the summary fails after the report has been written; per-file
\* failures, an empty file list and a failed enumeration never change the
\* status: without one of those two failures the report is written and the
\* status is 0.  An interruption ends with 130, a refused input directory
\* with 1 before any file is processed.
C9_ExitStatus ==
    pc = "exit" =>
        /\ (exit_code = 130) <=> (<<"cancelled", "">> \in log)
        /\ InputRefused =>
              /\ exit_code = 1
              /\ pbar = 0
              /\ html_files = << >>
              /\ all_links = {}
              /\ disk = NoReport
        /\ (~InputRefused /\ exit_code # 130) =>
              /\ exit_code \in {0, 1}
              /\ (exit_code = 1) <=> (<<"unexpected_error", "">> \in log)
              /\ (disk = NoReport) <=> (<<"gallery_error", "">> \in log)
              /\ exit_code = 0 => disk # NoReport
              /\ pbar = Len(html_files)

\* A run in which a file failed has written its report and ended with
\* status 0.
C9_Witness ==
    /\ pc = "exit"
    /\ exit_code = 0
    /\ disk # NoReport
    /\ \E i \in 1..Len(html_files) : FileFails[html_files[i]]

(***************************************************************************)
(* C10: containment and growth.                                            *)
(***************************************************************************)
\* Every link of every bucket is in all_links.
BucketsWithinAllLinks ==
    \A d \in DOMAIN photos_by_date :
        \A i \in 1..Len(photos_by_date[d]) : photos_by_date[d][i] \in all_links

\* Within a run a step removes nothing: no link from all_links, no date key,
\* and no occurrence of a link from a bucket.
NothingRemoved ==
    run' = run =>
        /\ all_links \subseteq all_links'
        /\ DOMAIN photos_by_date \subseteq DOMAIN photos_by_date'
        /\ \A d \in DOMAIN photos_by_date :
             /\ Len(photos_by_date'[d]) >= Len(photos_by_date[d])
             /\ \A h \in Range(photos_by_date[d]) :
                  Count(photos_by_date'[d], h) >= Count(photos_by_date[d], h)

\* C10: in every state of a run, also after files have failed, every link of
\* every bucket is in all_links, and no step of the run removes a link from
\* all_links, a date key, or an element from a bucket.
C10_ContainmentAndGrowth ==
    [][BucketsWithinAllLinks /\ BucketsWithinAllLinks' /\ NothingRemoved]_vars

\* After a failed file the sort has run on a bucket that holds a link twice.
C10_Witness ==
    /\ pc = "render"
    /\ \E i \in 1..Len(html_files) : FileFails[html_files[i]]
    /\ \E d \in DOMAIN photos_by_date :
         \E h \in all_links : Count(photos_by_date[d], h) >= 2

(***************************************************************************)
(* C7: Date Extractor.                                                     *)
(***************************************************************************)
Jan15 == <<49, 53, 32, 1103, 1085, 1074, 32, 50, 48, 50, 52>>    \* "15 янв 2024"
Date_2024_01_15 == <<50, 48, 50, 52, 46, 48, 49, 46, 49, 53>>    \* "2024.01.15"

\* text[i .. i+n-1] is a string of the pattern's language:
\* 1-2 digits, whitespace, three Cyrillic letters, whitespace, four digits.
InPatternLanguage(text, i, n) ==
    /\ n \in {10, 11}
    /\ i >= 1
    /\ i + n - 1 <= Len(text)
    /\ LET s == SubSeq(text, i, i + n - 1)
           d == n - 9
       IN  /\ \A k \in 1..d : IsDigit(s[k])
           /\ IsSpace(s[d + 1])
           /\ \A k \in (d + 2)..(d + 4) : IsCyrillic(s[k])
           /\ IsSpace(s[d + 5])
           /\ \A k \in (d + 6)..(d + 9) : IsDigit(s[k])

\* A match of the pattern starts at position i of text.
MatchStartsAt(text, i) == \E n \in {10, 11} : InPatternLanguage(text, i, n)

\* The position of the leftmost match, 0 when the pattern matches nowhere.
FirstMatchPos(text) ==
    LET at == {i \in 1..Len(text) : MatchStartsAt(text, i)}
    IN  IF at = {} THEN 0 ELSE CHOOSE i \in at : \A j \in at : i <= j

\* The month token of the leftmost match is one of the twelve abbreviations
\* (in any letter case).
FirstMatchMonthKnown(text) ==
    LET i == FirstMatchPos(text)
        d == IF InPatternLanguage(text, i, 11) THEN 2 ELSE 1
    IN  /\ i > 0
        /\ Lower(SubSeq(text, i + d + 1, i + d + 3)) \in DOMAIN MONTHS

\* text contains "15 янв 2024" somewhere.
ContainsJan15(text) ==
    \E i \in 1..Len(text) :
        i + 10 <= Len(text) /\ SubSeq(text, i, i + 10) = Jan15

\* C7 as stated: every text that contains "15 янв 2024" anywhere yields
\* "2024.01.15", and every text with an unrecognized month token or malformed
\* spacing (no match of the pattern at all) yields None.
C7_AsStated ==
    called =>
        /\ ContainsJan15(arg) => ret = Date_2024_01_15
        /\ (FirstMatchPos(arg) = 0 \/ ~FirstMatchMonthKnown(arg)) => ret = None

\* C7 amended: a text whose leftmost match of the date pattern is
\* "15 янв 2024" yields "2024.01.15"; a text in which the pattern matches
\* nowhere (for instance because a space is missing or doubled), or whose
\* leftmost match has a month token outside the twelve abbreviations, yields
\* None, whatever follows that match.
C7_FirstMatchDecides ==
    called =>
        /\ ( /\ FirstMatchPos(arg) > 0
             /\ FirstMatchPos(arg) + 10 <= Len(arg)
             /\ SubSeq(arg, FirstMatchPos(arg), FirstMatchPos(arg) + 10) = Jan15 )
           => ret = Date_2024_01_15
        /\ (FirstMatchPos(arg) = 0 \/ ~FirstMatchMonthKnown(arg)) => ret = None

\* extract_date has returned "2024.01.15" for a text whose leftmost match is
\* "15 янв 2024", with text before it and another match after it.
C7_Witness ==
    /\ called
    /\ ret = Date_2024_01_15
    /\ FirstMatchPos(arg) > 1
    /\ SubSeq(arg, FirstMatchPos(arg), FirstMatchPos(arg) + 10) = Jan15
    /\ \E i \in (FirstMatchPos(arg) + 11)..Len(arg) : MatchStartsAt(arg, i)

(***************************************************************************)
(* C8: Link Classifier.                                                    *)
(***************************************************************************)
\* The link without its query: everything before the first "?".
BeforeQuery(link) ==
    IF \E i \in 1..Len(link) : link[i] = 63
    THEN SubSeq(link, 1, (CHOOSE i \in 1..Len(link) :
                             link[i] = 63 /\ \A j \in 1..(i - 1) : link[j] # 63) - 1)
    ELSE link

\* name ends with the extension e in some letter case, and what precedes it in
\* the last path component is a file name (some character that is not ".").
HasExtension(name, e) ==
    /\ Len(name) > Len(e)
    /\ LET cut == Len(name) - Len(e)
           tail == SubSeq(name, cut + 1, Len(name))
       IN  /\ \A k \in 1..Len(e) :
                  tail[k] = e[k] \/ (e[k] \in 97..122 /\ tail[k] = e[k] - 32)
           /\ \E k \in 1..cut :
                  /\ name[k] \notin {46, 47}
                  /\ \A m \in k..cut : name[m] # 47

\* C8: is_image_link accepts exactly the links whose file name, once the query
\* is removed, has one of the seven image extensions in any letter case.
C8_Classifier ==
    called =>
        (ret <=> \E e \in image_extensions : HasExtension(BeforeQuery(arg), e))

\* is_image_link has accepted a link with an upper-case extension and a query.
C8_Witness ==
    /\ called
    /\ ret = TRUE
    /\ \E i \in 1..Len(arg) : arg[i] = 63
    /\ \E e \in image_extensions :
           /\ HasExtension(BeforeQuery(arg), e)
           /\ SubSeq(BeforeQuery(arg), Len(BeforeQuery(arg)) - Len(e) + 1,
                     Len(BeforeQuery(arg))) # e

====
